---- MODULE Spec2Model ----
(***************************************************************************)
(* Model of the HX711/HX717 bulk-sample acquisition driver                 *)
(* (klippy/extras/hx71x.py): the acquisition lifecycle (start, stop,       *)
(* device reset), the periodic batch cycle and the multi-chip sample       *)
(* decoder.  The collaborators of bulk_sensor.py and bulk_sensor_adc.py    *)
(* (BatchBulkHelper, BulkDataQueue, ChipClockUpdater, TimestampHelper)     *)
(* are modelled from the design specification.                             *)
(***************************************************************************)
EXTENDS Integers, Sequences, FiniteSets, TLC

(***************************************************************************)
(* Program constants.                                                      *)
(***************************************************************************)
BYTES_PER_SAMPLE == 4
MAX_CHIPS == 4
MAX_BULK_MSG_SIZE == 51

\* sample_rate_options of HX711 ({80, 10}) and HX717 ({320, 80, 20, 10})
HX711_SPS == {80, 10}
HX717_SPS == {320, 80, 20, 10}

(***************************************************************************)
(* Bounds of the model.                                                    *)
(***************************************************************************)
MaxClients == 2      \* subscribers (API clients and dump endpoints)
MaxQueue == 2        \* messages buffered in the bulk queue
MaxSeq == 1          \* highest message sequence number the device sends
MaxBlocks == 1       \* full sample blocks carried by one message
ClockGens == 2       \* distinct regression generations told apart
MaxDecodeMsgs == 2   \* messages of one pulled batch in the decoder runs


\* Chip count the lifecycle runs explore, and the MCU frequencies: at the
\* first the double product of the start command's rest_ticks is exact, at
\* the second it falls one tick short.
LifecycleChips == {2}
McuFreqs == {16000000, 12000000}

VARIABLES
    cfg,             \* the configuration section given to the constructor
    built,           \* the constructed driver object, or the error raised
    chip_count,      \* self.chip_count
    sps,             \* self.sps
    mcu_freq,        \* frequency of the MCU clock (seconds_to_clock)
    clients,         \* BatchBulkHelper: active subscribers
    is_started,      \* BatchBulkHelper: Idle (FALSE) / Running (TRUE)
    batch_timer,     \* BatchBulkHelper: periodic timer registered
    queue,           \* BulkDataQueue: buffered raw messages
    dev_rest_ticks,  \* rest_ticks of the last query_hx71x command sent
    dev_seq,         \* device side: sequence number of its next message
    clock_gen,       \* ChipClockUpdater / ClockSyncRegression generation
    pending,         \* handlers suspended in send_wait_ack, oldest first
    pulled,          \* a tick between its pull_samples and its decoding
    batch_msg,       \* message returned by the handler that ran last
    delivered_to,    \* subscribers the handler that ran last dispatched to
    log,             \* steps performed by the handler that ran last
    last,            \* name of the handler step that ran last
    arrived,         \* history: sequence numbers enqueued and not cleared
    dispatched,      \* history: sequence numbers of the messages decoded
    stale,           \* history: per buffered message, enqueued before the
                     \*          last start
    dropped,         \* history: messages the last stop and start discarded
    toolhead,        \* toolhead limits and the input shaper
    probe,           \* the vibration probe object
    probing          \* history of the probe's calls

vars == <<cfg, built, chip_count, sps, mcu_freq, clients, is_started, batch_timer, queue,
          dev_rest_ticks, dev_seq, clock_gen, pending, pulled, batch_msg,
          delivered_to, log, last,
          arrived, dispatched, stale, dropped, toolhead, probe, probing>>

\* The history variables are recorded by the runs of SpecQueue only.
history == <<arrived, dispatched, stale, dropped>>

\* The vibration probe and its toolhead take part in the runs of SpecProbe.
probe_vars == <<toolhead, probe, probing>>

Clients == 1..MaxClients

(***************************************************************************)
(* Binary layout "<%di": chip_count little-endian signed 4-byte values.    *)
(***************************************************************************)
Pow2_8 == 2 ^ 8
Pow2_16 == 2 ^ 16
Pow2_24 == 2 ^ 24

\* struct.pack("<i", v): the four bytes of v in two's complement.
PackI32LE(v) ==
    LET w == IF v < 0 THEN (v + 2147483647) + 1 ELSE v
        top == IF v < 0 THEN (w \div Pow2_24) + 128 ELSE w \div Pow2_24
    IN  << w % Pow2_8, (w \div Pow2_8) % Pow2_8,
           (w \div Pow2_16) % Pow2_8, top >>

RECURSIVE PackBlock(_)
PackBlock(counts) ==
    IF counts = <<>> THEN <<>>
    ELSE PackI32LE(Head(counts)) \o PackBlock(Tail(counts))

\* Variant: only the low three bytes are read, as a signed 24-bit value.
UnpackI32LE_24bit(data, offset) ==
    LET b0 == data[offset + 1]
        b1 == data[offset + 2]
        b2 == data[offset + 3]
        hi == IF b2 >= 128 THEN b2 - 256 ELSE b2
    IN  hi * Pow2_16 + b1 * Pow2_8 + b0

\* struct.unpack_from("<i", data, offset): one signed value from 4 bytes.
UnpackI32LE(data, offset) ==
    LET b0 == data[offset + 1]
        b1 == data[offset + 2]
        b2 == data[offset + 3]
        b3 == data[offset + 4]
        hi == IF b3 >= 128 THEN b3 - 256 ELSE b3
    IN  hi * Pow2_24 + b2 * Pow2_16 + b1 * Pow2_8 + b0

\* self._unpack_block(data, offset=...): chip_count values in chip order.
_unpack_block(data, offset, n) ==
    [k \in 1..n |-> UnpackI32LE(data, offset + BYTES_PER_SAMPLE * (k - 1))]

RECURSIVE sum(_)
sum(counts) ==
    IF counts = <<>> THEN 0 ELSE Head(counts) + sum(Tail(counts))

bytes_per_block(n) == BYTES_PER_SAMPLE * n

blocks_per_msg_roundUp(n) ==
    (MAX_BULK_MSG_SIZE + bytes_per_block(n) - 1) \div bytes_per_block(n)

blocks_per_msg(n) == MAX_BULK_MSG_SIZE \div bytes_per_block(n)


(***************************************************************************)
(* TimestampHelper: the time of block i of the message whose sequence was  *)
(* given to update_sequence, from the absolute block index and the clock   *)
(* regression current when it is computed.  A time is kept as the pair     *)
(* (regression generation, absolute block index): two times of the same    *)
(* generation differ by (difference of block) / sample_rate.               *)
(***************************************************************************)
time_of_msg(gen, sequence, i, n) ==
    [clock |-> gen, block |-> sequence * blocks_per_msg(n) + i]

\* collections.deque(maxlen=...).append: a full deque drops its oldest entry.
DequeAppend(samples, maxlen, msg) ==
    IF maxlen = 0 THEN <<>>
    ELSE IF Len(samples) >= maxlen THEN Append(Tail(samples), msg)
    ELSE Append(samples, msg)

SampleMsg_noSequence(gen, sequence, i, counts, n) ==
    [time |-> time_of_msg(gen, 0, i, n),
     total_counts |-> sum(counts),
     counts |-> counts]

\* One emitted sample: (time, total_counts, counts0 .. counts<n-1>).
SampleMsg(gen, sequence, i, counts, n) ==
    [time |-> time_of_msg(gen, sequence, i, n),
     total_counts |-> sum(counts),
     counts |-> counts]

\* The inner loop of _extract_samples over the blocks i .. of one message.
RECURSIVE ExtractBlocks(_, _, _, _, _, _)
ExtractBlocks(samples, maxlen, params, i, n, gen) ==
    IF i >= Len(params.data) \div bytes_per_block(n) THEN samples
    ELSE LET counts == _unpack_block(params.data, bytes_per_block(n) * i, n)
             msg == SampleMsg(gen, params.sequence, i, counts, n)
         IN  ExtractBlocks(DequeAppend(samples, maxlen, msg), maxlen,
                           params, i + 1, n, gen)

\* The outer loop of _extract_samples over the pulled messages.
RECURSIVE ExtractMessages(_, _, _, _, _)
ExtractMessages(samples, maxlen, raw_samples, n, gen) ==
    IF raw_samples = <<>> THEN samples
    ELSE ExtractMessages(
             ExtractBlocks(samples, maxlen, Head(raw_samples), 0, n, gen),
             maxlen, Tail(raw_samples), n, gen)

_extract_samples_maxlenMsgs(raw_samples, n, gen) ==
    ExtractMessages(<<>>, Len(raw_samples), raw_samples, n, gen)

_extract_samples(raw_samples, n, gen) ==
    ExtractMessages(<<>>, Len(raw_samples) * blocks_per_msg(n),
                    raw_samples, n, gen)

get_range_23bit(n) ==
    LET range_max == (2 ^ 23) * n
    IN  <<-range_max, range_max>>

\* get_range(): the pair (minimum, maximum) used to detect saturation.
get_range(n) ==
    LET range_max == (2 ^ 24) * n
    IN  <<-range_max, range_max>>


(***************************************************************************)
(* Construction from a configuration section.  A section may set the       *)
(* options dout_pin1.. and sclk_pin1.. ; an option that is set names a pin *)
(* of one MCU.                                                             *)
(***************************************************************************)
None == "None"
Mcus == {"mcu", "mcu2"}

\* Pin options a section may set: one more than the constructor reads.
ConfigSlots == MAX_CHIPS + 1

\* The value of a pin option: None when it is not set, else the MCU whose
\* pin it names.
ConfigSections ==
    [dout_pin : [1..ConfigSlots -> {None} \cup Mcus],
     sclk_pin : [1..ConfigSlots -> {None} \cup Mcus]]

\* default_gain of HX711 ('A-128') as its gain_channel number
DEFAULT_GAIN == 1

\* pins.lookup_pin: the pin parameters of a pin description.
lookup_pin(kind, i, desc) == [chip |-> desc, pin |-> <<kind, i>>]

\* One pass of the loop "for i in range(1, 5)" over the chip options.
ChipStep_skipMissing(config, i, chips) ==
    IF config.dout_pin[i] = None THEN [ctl |-> "next", chips |-> chips]
    ELSE IF config.sclk_pin[i] = None THEN [ctl |-> "raise", chips |-> chips]
    ELSE [ctl |-> "next",
          chips |-> Append(chips, <<lookup_pin("dout", i, config.dout_pin[i]),
                                    lookup_pin("sclk", i, config.sclk_pin[i])>>)]

ChipStep(config, i, chips) ==
    IF config.dout_pin[i] = None THEN [ctl |-> "break", chips |-> chips]
    ELSE IF config.sclk_pin[i] = None THEN [ctl |-> "raise", chips |-> chips]
    ELSE [ctl |-> "next",
          chips |-> Append(chips, <<lookup_pin("dout", i, config.dout_pin[i]),
                                    lookup_pin("sclk", i, config.sclk_pin[i])>>)]

RECURSIVE ChipLoop(_, _, _)
ChipLoop(config, i, chips) ==
    IF i >= 5 THEN [error |-> None, chips |-> chips]
    ELSE LET r == ChipStep(config, i, chips)
         IN  IF r.ctl = "raise"
             THEN [error |-> "HX71x config missing sclk_pin", chips |-> chips]
             ELSE IF r.ctl = "break"
             THEN [error |-> None, chips |-> chips]
             ELSE ChipLoop(config, i + 1, r.chips)

\* The pin lists of the configuration command: the looked-up pins, then
\* the first pin repeated in the slots of the chips that are not there.
PadPins_nonePlaceholder(pins, n) ==
    pins \o [k \in 1..(MAX_CHIPS - n) |-> [chip |-> None, pin |-> <<None, 0>>]]

PadPins(pins, n) ==
    pins \o [k \in 1..(MAX_CHIPS - n) |-> pins[1]]

SameMcu_doutOnly(mcu, dout_pins, sclk_pins) ==
    \A k \in 1..Len(dout_pins) : dout_pins[k].chip = mcu

\* The loop "for pin in (dout_pins + sclk_pins)" finds no foreign pin.
SameMcu(mcu, dout_pins, sclk_pins) ==
    LET pins == dout_pins \o sclk_pins
    IN  \A k \in 1..Len(pins) : pins[k].chip = mcu

\* The constructor raised config.error(error): no object exists.
ConfigError(error) ==
    [error |-> error, chip_count |-> 0, mcu |-> None, oid |-> 0, lce_oid |-> 0,
     dout_pins |-> <<>>, sclk_pins |-> <<>>, gain_channel |-> 0,
     bytes_per_block |-> 0, blocks_per_msg |-> 0, header |-> <<>>,
     config_cmds |-> <<>>]

NotBuilt == ConfigError("not constructed")

\* HX71xBase.__init__ (the endstop oid is not allocated).
__init__(config) ==
    LET loop == ChipLoop(config, 1, <<>>)
        chips == loop.chips
        n == Len(chips)
        dout_pins == [k \in 1..n |-> chips[k][1]]
        sclk_pins == [k \in 1..n |-> chips[k][2]]
        mcu == dout_pins[1].chip
    IN  IF loop.error # None THEN ConfigError(loop.error)
        ELSE IF n < 1
        THEN ConfigError("The minimum number of sensor chips is 1")
        ELSE IF ~SameMcu(mcu, dout_pins, sclk_pins)
        THEN ConfigError("All HX71x chips must be connected to the same MCU")
        ELSE [error |-> None, chip_count |-> n, mcu |-> mcu,
              oid |-> 0, lce_oid |-> 0,
              dout_pins |-> [k \in 1..Len(PadPins(dout_pins, n)) |->
                                PadPins(dout_pins, n)[k].pin],
              sclk_pins |-> [k \in 1..Len(PadPins(sclk_pins, n)) |->
                                PadPins(sclk_pins, n)[k].pin],
              gain_channel |-> DEFAULT_GAIN,
              bytes_per_block |-> bytes_per_block(n),
              blocks_per_msg |-> blocks_per_msg(n),
              header |-> << <<"time">>, <<"total_counts">> >>
                         \o [k \in 1..n |-> <<"counts", k - 1>>],
              config_cmds |-> <<>>]

\* _build_config: the commands added to the MCU's configuration.
_build_config(self) ==
    << [cmd |-> "config_hx71x", oid |-> self.oid,
        chip_count |-> self.chip_count, gain_channel |-> self.gain_channel,
        load_cell_endstop_oid |-> self.lce_oid,
        dout_pins |-> <<self.dout_pins[1], self.dout_pins[2],
                        self.dout_pins[3], self.dout_pins[4]>>,
        sclk_pins |-> <<self.sclk_pins[1], self.sclk_pins[2],
                        self.sclk_pins[3], self.sclk_pins[4]>>],
       [cmd |-> "query_hx71x", oid |-> self.oid, rest_ticks |-> 0] >>

\* The section of n chips wired to one MCU, and the object built from it.
SectionOf(n) ==
    [dout_pin |-> [i \in 1..ConfigSlots |-> IF i <= n THEN "mcu" ELSE None],
     sclk_pin |-> [i \in 1..ConfigSlots |-> IF i <= n THEN "mcu" ELSE None]]

Configured(config) ==
    [__init__(config) EXCEPT !.config_cmds = _build_config(__init__(config))]


(***************************************************************************)
(* The driver's mutable state as one record, threaded through the steps of *)
(* a handler: the bulk queue, the device as last commanded, the clock      *)
(* updater and the steps the handler has performed so far.                 *)
(***************************************************************************)
Step(op, arg) == [op |-> op, arg |-> arg]

Driver(steps) ==
    [queue |-> queue, dev_rest_ticks |-> dev_rest_ticks, dev_seq |-> dev_seq,
     clock_gen |-> clock_gen, log |-> steps]

\* logging.error(...): a report; nothing is raised and no shutdown is asked.
logging_error(s) ==
    [s EXCEPT !.log = Append(@, Step("logging.error", 0))]

\* An exception leaves the handler: nothing after it is performed.
raise(s, exception) ==
    [s EXCEPT !.log = Append(@, Step(exception, 0))]

\* Variant: clear_samples leaves the buffered messages in the queue.
clear_samples_keep(s) ==
    [s EXCEPT !.log = Append(@, Step("clear_samples", 0))]

\* BulkDataQueue.clear_samples(): drop all buffered messages.
clear_samples(s) ==
    [s EXCEPT !.queue = <<>>, !.log = Append(@, Step("clear_samples", 0))]

\* query_hx71x_cmd.send([oid, rest_ticks]): non-blocking.  The device
\* restarts its message sequence when it is told to stream.
send(s, rest_ticks) ==
    [s EXCEPT !.dev_rest_ticks = rest_ticks,
              !.dev_seq = IF rest_ticks > 0 THEN 0 ELSE @,
              !.log = Append(@, Step("send", rest_ticks))]

\* query_hx71x_cmd.send_wait_ack([oid, rest_ticks]): the command goes out
\* and the caller is suspended until the device acknowledges it.
send_wait_ack(s, rest_ticks) ==
    [s EXCEPT !.dev_rest_ticks = rest_ticks,
              !.dev_seq = IF rest_ticks > 0 THEN 0 ELSE @,
              !.log = Append(@, Step("send_wait_ack", rest_ticks))]

\* The acknowledgement arrives: send_wait_ack returns.
ack_received(s) ==
    [s EXCEPT !.log = Append(@, Step("ack", 0))]

\* ChipClockUpdater.note_start(): a session begins with a fresh regression.
note_start(s) ==
    [s EXCEPT !.clock_gen = 0, !.log = Append(@, Step("note_start", 0))]

\* ChipClockUpdater.update_clock(): refresh the regression.
update_clock(s) ==
    [s EXCEPT !.clock_gen = (@ % ClockGens) + 1,
              !.log = Append(@, Step("update_clock", 0))]

\* BulkDataQueue.pull_samples(): drain; the caller keeps what was buffered.
pull_samples(s) ==
    [s EXCEPT !.queue = <<>>,
              !.log = Append(@, Step("pull_samples", Len(s.queue)))]

\* The exponent of the highest power of two that is at most n (n >= 1).
RECURSIVE FloorLog2(_)
FloorLog2(n) == IF n < 2 THEN 0 ELSE 1 + FloorLog2(n \div 2)

\* mcu.seconds_to_clock(time) = int(time * freq) for the double
\* time = num / den of _start_measurements, num / den = 0.7 / sps.  Every
\* sample rate is 10 * 2^k, so the quotient is the double nearest to 0.07
\* scaled by 2^-k; it lies below 7 / (10 * sps) by the factor
\* 1 - (52 / 7) * 2^-56.  The product with freq is rounded to a double and
\* truncated: where 7 * freq / (10 * sps) is no integer the result is its
\* floor; where it is an integer N, 2^p <= N < 2^(p+1), the product rounds
\* back to N exactly when 13 * N < 14 * 2^p, and otherwise to the double
\* below N, whose truncation is N - 1.
seconds_to_clock(num, den, freq) ==
    LET N == (num * freq) \div den
    IN  IF N = 0 \/ (num * freq) % den # 0 \/ 13 * N < 14 * 2 ^ FloorLog2(N)
        THEN N
        ELSE N - 1

rest_ticks_of(rate, freq) == seconds_to_clock(7, 10 * rate, freq)

\* Variant: the command is sent before the queue is cleared.
_start_measurements_sendFirst(s) ==
    note_start(clear_samples(send(s, rest_ticks_of(sps, mcu_freq))))

_start_measurements(s) ==
    note_start(send(clear_samples(s), rest_ticks_of(sps, mcu_freq)))

\* Variant: the queue is cleared before the stop command is sent.
_finish_measurements_send_clearFirst(s) ==
    send_wait_ack(clear_samples(s), 0)

\* _finish_measurements up to the point where send_wait_ack suspends it.
_finish_measurements_send(s) ==
    send_wait_ack(s, 0)

\* Variant: the queue is not cleared after the acknowledgement.
_finish_measurements_acked_noClear(s) ==
    ack_received(s)

\* _finish_measurements from the acknowledgement on.
_finish_measurements_acked(s) ==
    clear_samples(ack_received(s))

\* The body of _handle_reset, lines 170-172, up to the point where the
\* send_wait_ack of its _finish_measurements suspends it.
_handle_reset_send(s) ==
    _finish_measurements_send(logging_error(s))

\* The body of _handle_reset from the acknowledgement on: the rest of
\* _finish_measurements, then _start_measurements (line 173).
_handle_reset_acked(s) ==
    _start_measurements(_finish_measurements_acked(s))

NoData == [has_data |-> FALSE, data |-> <<>>]

\* No tick is between its pull_samples and its decoding.
NotPulled == [busy |-> FALSE, raw_samples |-> <<>>, log |-> <<>>]

\* Variant: the clock is updated after the samples have been decoded.
_process_batch_clockLast(s) ==
    LET raw_samples == s.queue
        s1 == pull_samples(s)
        samples == _extract_samples(raw_samples, chip_count, s1.clock_gen)
        s2 == [s1 EXCEPT !.log =
                  Append(@, Step("_extract_samples", Len(samples)))]
    IN  IF raw_samples = <<>> THEN [s |-> update_clock(s1), msg |-> NoData]
        ELSE IF samples = <<>> THEN [s |-> update_clock(s2), msg |-> NoData]
        ELSE [s |-> update_clock(s2),
              msg |-> [has_data |-> TRUE, data |-> samples]]

\* Variant: an empty list of decoded samples is returned as a message.
_process_batch_noEmptyCheck(s) ==
    LET s1 == update_clock(s)
        raw_samples == s1.queue
        s2 == pull_samples(s1)
        samples == _extract_samples(raw_samples, chip_count, s2.clock_gen)
        s3 == [s2 EXCEPT !.log =
                  Append(@, Step("_extract_samples", Len(samples)))]
    IN  IF raw_samples = <<>> THEN [s |-> s2, msg |-> NoData]
        ELSE [s |-> s3, msg |-> [has_data |-> TRUE, data |-> samples]]

\* Variant: the queue is pulled twice and the second result is kept.
_process_batch_pull_twice(s) ==
    LET s1 == pull_samples(update_clock(s))
    IN  [s |-> pull_samples(s1), raw_samples |-> s1.queue]

\* _process_batch up to its pull_samples (lines 175-176): the driver state
\* and the local list raw_samples.
_process_batch_pull(s) ==
    LET s1 == update_clock(s)
    IN  [s |-> pull_samples(s1), raw_samples |-> s1.queue]

\* _process_batch from line 177 on, on the list it pulled: the driver state
\* after it and the message it returns ({} is NoData, {'data': samples}
\* has has_data).
_process_batch_decode(s, raw_samples) ==
    LET samples == _extract_samples(raw_samples, chip_count, s.clock_gen)
        s3 == [s EXCEPT !.log =
                  Append(@, Step("_extract_samples", Len(samples)))]
    IN  IF raw_samples = <<>> THEN [s |-> s, msg |-> NoData]
        ELSE IF samples = <<>> THEN [s |-> s3, msg |-> NoData]
        ELSE [s |-> s3, msg |-> [has_data |-> TRUE, data |-> samples]]

_process_batch(s) ==
    LET p == _process_batch_pull(s)
    IN  _process_batch_decode(p.s, p.raw_samples)


(***************************************************************************)
(* Messages of the bulk data channel.                                      *)
(***************************************************************************)
\* Channel values of one block, for up to MAX_CHIPS chips: mid-range values,
\* the bounds of the signed 24-bit range and of the 4-byte encoding.
SamplePatterns ==
    << <<100, -50, 7, 0>>,
       <<-8388608, 100, 0, -1>>,
       <<8388607, 8388607, 8388607, 8388607>>,
       <<-2147483647 - 1, 0, 0, 1>>,
       <<2147483647, 0, -1, 0>>,
       <<-8388608, -8388608, -8388608, -8388608>> >>

PatternBlock(k, n) ==
    PackBlock(SubSeq(SamplePatterns[((k - 1) % Len(SamplePatterns)) + 1], 1, n))

\* The payload of b consecutive blocks starting at pattern k.
RECURSIVE PatternData(_, _, _)
PatternData(k, b, n) ==
    IF b = 0 THEN <<>> ELSE PatternBlock(k, n) \o PatternData(k + 1, b - 1, n)

\* A trailing partial block (fewer bytes than one block).
PartialTails == {<<>>, <<7>>}

\* A message of MAX_BULK_MSG_SIZE bytes: as many blocks as fit, and filler.
FullData(n) ==
    PatternData(1, blocks_per_msg(n), n)
    \o [k \in 1..(MAX_BULK_MSG_SIZE - bytes_per_block(n) * blocks_per_msg(n))
          |-> 7]

\* Payloads of the decoder runs: up to MaxBlocks consecutive pattern blocks,
\* the payloads that end in a partial block, and the largest message.
DecodePayloads(n) ==
    {PatternData(k, b, n) : k \in 1..Len(SamplePatterns), b \in 0..MaxBlocks}
    \cup {PatternData(1, b, n) \o t : b \in 0..MaxBlocks, t \in PartialTails}
    \cup {FullData(n)}

LifecyclePayloads(n) ==
    {<<7>>, PatternData(1, 1, n)}

RawMessage(sequence, data) == [sequence |-> sequence, data |-> data]

(***************************************************************************)
(* The vibration probes (ADXL345VibProbe, AccelerometerVibrationProbe) and *)
(* the toolhead they drive.  An acceleration is kept in units of 10^-4     *)
(* mm/s^2, one decimal more than a "%.3f" prints; a printed number is kept *)
(* as the number of thousandths it reads.                                  *)
(***************************************************************************)
\* 2^e modulo 10^4.
RECURSIVE Pow2Mod(_)
Pow2Mod(e) == IF e = 0 THEN 1 ELSE (2 * Pow2Mod(e - 1)) % 10000

\* The least n with v * 2^n >= 10^4, for 0 < v.
RECURSIVE ScaleUp(_)
ScaleUp(v) == IF v >= 10000 THEN 0 ELSE 1 + ScaleUp(2 * v)

\* The float of v / 10^4 is the double m * 2^-e nearest to it,
\* 2^52 <= m < 2^53: its exponent e, and the remainder of v * 2^e by 10^4,
\* which is below 5000 where the double is the next one below v / 10^4,
\* above 5000 where it is the next one above, and 0 where v / 10^4 is a
\* double.
DoubleExponent(v) ==
    IF v >= 10000 THEN 52 - FloorLog2(v \div 10000) ELSE 52 + ScaleUp(v)

DoubleRemainder(v) == ((v % 10000) * Pow2Mod(DoubleExponent(v))) % 10000

\* "%.3f" % v: the double rounded to three places.  A decimal that is no
\* tie rounds as the decimal does; at a tie (fourth decimal 5, nothing
\* after it) the double decides: below the tie it rounds down, above it
\* up, and a tie that is a double itself rounds to the even neighbour.
FormatF3(v) ==
    LET lo == v \div 10
    IN  IF v % 10 # 5 THEN (v + 5) \div 10
        ELSE IF DoubleRemainder(v) = 0
             THEN (IF lo % 2 = 0 THEN lo ELSE lo + 1)
        ELSE IF DoubleRemainder(v) < 5000 THEN lo
        ELSE lo + 1

\* The float a G-code parameter printed with three decimals is read as.
ParseFloat(str) == str * 10

\* A float attribute that may be None: None, or the float's value.
NoneFloat == <<>>

Float(v) == <<v>>

ValueOf(f) == f[1]

\* Toolhead limits before probing (the last is a tie of "%.3f" whose double
\* lies below it), and the probe's configured accel.
ToolheadAccels == {30000000, 10000004, 10000005}
ToolheadAccelToDecels == {15000000, 12345678}
ProbeAccels == {5000000, 7501234}

ProbeClasses == {"ADXL345VibProbe", "AccelerometerVibrationProbe"}

\* The objects a handler works on, threaded through its steps.
Probing(steps) == [toolhead |-> toolhead, self |-> probe, log |-> steps]

\* activate_gcode / deactivate_gcode .run_gcode_from_command()
run_gcode_from_command(p, template) ==
    [p EXCEPT !.log = Append(@, Step(template, 0))]

\* toolhead.flush_step_generation(), toolhead.dwell(), hmove.set_homing_moves
toolhead_call(p, op) ==
    [p EXCEPT !.log = Append(@, Step(op, 0))]

\* gcode.run_script_from_command("SET_VELOCITY_LIMIT ACCEL=.. ACCEL_TO_DECEL=..")
SET_VELOCITY_LIMIT(p, accel_str, accel_to_decel_str) ==
    [p EXCEPT !.toolhead.max_accel = ParseFloat(accel_str),
              !.toolhead.max_accel_to_decel = ParseFloat(accel_to_decel_str),
              !.log = Append(@, Step("SET_VELOCITY_LIMIT", accel_str))]

\* toolhead.cmd_M204 with parameter S
cmd_M204(p, S) ==
    [p EXCEPT !.toolhead.max_accel = S, !.log = Append(@, Step("M204", S))]

\* input_shaper.disable_shaping() / enable_shaping(), when the printer has
\* an input_shaper object.
set_shaping(p, on) ==
    IF p.toolhead.input_shaper
    THEN [p EXCEPT !.toolhead.shaping = on,
                   !.log = Append(@, Step(IF on THEN "enable_shaping"
                                          ELSE "disable_shaping", 0))]
    ELSE p

\* probe_prepare(self, hmove, movepos, speed): of the two definitions in the
\* body of AccelerometerVibrationProbe the later one is the method.
probe_prepare(p) ==
    LET p1 == run_gcode_from_command(p, "activate_gcode")
        p2 == toolhead_call(toolhead_call(p1, "flush_step_generation"),
                            "dwell")
        p3 == [p2 EXCEPT
                 !.self._old_max_accel = Float(p2.toolhead.max_accel),
                 !.self._old_max_accel_to_decel =
                     Float(p2.toolhead.max_accel_to_decel)]
        p4 == SET_VELOCITY_LIMIT(p3, FormatF3(p3.self.accel),
                                 FormatF3(p3.self.accel))
        p5 == set_shaping(p4, FALSE)
        p6 == cmd_M204(p5, p5.self.accel)
    IN  toolhead_call(p6, "set_homing_moves")

\* probe_finish(self, hmove): the later of the two definitions likewise.
\* Before the first probe_prepare the saved limits are None and "%.3f"
\* raises TypeError: the limits, the input shaper and deactivate_gcode are
\* left alone.
probe_finish(p) ==
    LET p1 == toolhead_call(p, "dwell")
        p2 == SET_VELOCITY_LIMIT(
                  p1, FormatF3(ValueOf(p1.self._old_max_accel)),
                  FormatF3(ValueOf(p1.self._old_max_accel_to_decel)))
        p3 == set_shaping(p2, TRUE)
    IN  IF NoneFloat \in {p1.self._old_max_accel,
                          p1.self._old_max_accel_to_decel}
        THEN raise(p1, "TypeError")
        ELSE run_gcode_from_command(p3, "deactivate_gcode")

\* AccelerometerVibrationProbe.deactivate_probe
deactivate_probe(p) == run_gcode_from_command(p, "deactivate_gcode")

\* AccelerometerVibrationProbe.activate_probe
activate_probe(p) == run_gcode_from_command(p, "activate_gcode")

\* multi_probe_begin: ADXL345VibProbe's does nothing.
multi_probe_begin(p) ==
    IF p.self.class = "ADXL345VibProbe" THEN p
    ELSE IF p.self.deactivate_on_each_sample THEN p
    ELSE [p EXCEPT !.self.multi = "FIRST"]

\* multi_probe_end: ADXL345VibProbe's does nothing.
multi_probe_end(p) ==
    IF p.self.class = "ADXL345VibProbe" THEN p
    ELSE IF p.self.deactivate_on_each_sample THEN p
    ELSE [deactivate_probe(p) EXCEPT !.self.multi = "OFF"]

\* A probe object after __init__: ADXL345VibProbe has no multi-probe
\* attributes, AccelerometerVibrationProbe has those of its base class.
ProbeObject(class, accel, deactivate_on_each_sample) ==
    IF class = "ADXL345VibProbe"
    THEN [class |-> class, accel |-> accel,
          _old_max_accel |-> NoneFloat,
          _old_max_accel_to_decel |-> NoneFloat]
    ELSE [class |-> class, accel |-> accel,
          deactivate_on_each_sample |-> deactivate_on_each_sample,
          multi |-> "OFF",
          _old_max_accel |-> NoneFloat,
          _old_max_accel_to_decel |-> NoneFloat]

Toolhead(max_accel, max_accel_to_decel, input_shaper) ==
    [max_accel |-> max_accel, max_accel_to_decel |-> max_accel_to_decel,
     input_shaper |-> input_shaper, shaping |-> input_shaper]

\* Nothing was probed yet.
NotProbing(th) ==
    [phase |-> "idle", in_multi |-> FALSE, samples |-> 0, before |-> th,
     events |-> <<>>, paired |-> FALSE, direct |-> 0]

\* The printer of the load-cell runs has no vibration probe at work.
NoProbe ==
    /\ toolhead = Toolhead(30000000, 15000000, FALSE)
    /\ probe = ProbeObject("ADXL345VibProbe", 5000000, TRUE)
    /\ probing = NotProbing(toolhead)


(***************************************************************************)
(* State after construction: Idle, nothing subscribed, the device told     *)
(* rest_ticks=0 by the configuration commands.                             *)
(***************************************************************************)
Constructed ==
    /\ clients = {}
    /\ is_started = FALSE
    /\ batch_timer = FALSE
    /\ queue = <<>>
    /\ dev_rest_ticks = 0
    /\ dev_seq = 0
    /\ clock_gen = 0
    /\ pending = <<>>
    /\ pulled = NotPulled
    /\ batch_msg = NoData
    /\ delivered_to = {}
    /\ log = <<>>
    /\ last = "init"
    /\ arrived = <<>>
    /\ dispatched = <<>>
    /\ stale = <<>>
    /\ dropped = 0

Init ==
    /\ chip_count \in LifecycleChips
    /\ cfg = SectionOf(chip_count)
    /\ built = Configured(cfg)
    /\ sps \in HX711_SPS
    /\ mcu_freq \in McuFreqs
    /\ Constructed
    /\ NoProbe

\* Only a timer tick returns a message and dispatches it.
NoBatch ==
    /\ batch_msg' = NoData
    /\ delivered_to' = {}

Install(s) ==
    /\ queue' = s.queue
    /\ dev_rest_ticks' = s.dev_rest_ticks
    /\ dev_seq' = s.dev_seq
    /\ clock_gen' = s.clock_gen
    /\ log' = s.log

Waiting(who) == \E i \in 1..Len(pending) : pending[i].who = who

\* A handler suspended in send_wait_ack: the steps it has performed and
\* whether the device was streaming when its command went out.
Suspend(who, s) ==
    Append(pending, [who |-> who, log |-> s.log,
                     streaming |-> dev_rest_ticks > 0])

\* The reactor runs one operation at a time and the stop is synchronous:
\* while it waits for its acknowledgement no timer or client request runs.
ReactorFree == ~Waiting("stop")

(***************************************************************************)
(* BatchBulkHelper.add_client: the first subscriber starts the session.    *)
(***************************************************************************)
add_client(c) ==
    /\ ReactorFree
    /\ c \notin clients
    /\ clients' = clients \cup {c}
    /\ IF is_started
       THEN /\ Install(Driver(<<>>))
            /\ UNCHANGED <<is_started, batch_timer>>
       ELSE /\ is_started' = TRUE
            /\ Install(_start_measurements(Driver(<<>>)))
            /\ batch_timer' = TRUE
    /\ last' = "add_client"
    /\ NoBatch
    /\ UNCHANGED <<chip_count, sps, mcu_freq, pending>>

(***************************************************************************)
(* A subscriber leaves; the last one stops the session: the timer is       *)
(* cancelled and _finish_measurements runs up to its send_wait_ack.        *)
(***************************************************************************)
remove_client(c) ==
    /\ ReactorFree
    /\ c \in clients
    /\ clients' = clients \ {c}
    /\ IF clients' = {} /\ is_started
       THEN LET s == _finish_measurements_send(Driver(<<>>))
            IN  /\ Install(s)
                /\ pending' = Suspend("stop", s)
                /\ batch_timer' = FALSE
       ELSE /\ Install(Driver(<<>>))
            /\ UNCHANGED <<pending, batch_timer>>
    /\ last' = "remove_client"
    /\ NoBatch
    /\ UNCHANGED <<chip_count, sps, mcu_freq, is_started>>

\* What the handler suspended in send_wait_ack does once its stop command
\* is acknowledged: the helper's stop completes _finish_measurements, a
\* reset handler that got into its body completes it and starts again.
Resume(p) ==
    IF p.who = "reset"
    THEN _handle_reset_acked(Driver(p.log))
    ELSE _finish_measurements_acked(Driver(p.log))

(***************************************************************************)
(* The oldest unacknowledged stop command is acknowledged and the handler  *)
(* that waits for it continues.  The only handler the program suspends is  *)
(* the helper's stop, after which the session is Idle.                     *)
(***************************************************************************)
stop_acked ==
    /\ pending # <<>>
    /\ Install(Resume(Head(pending)))
    /\ pending' = Tail(pending)
    /\ is_started' = (is_started /\ Head(pending).who # "stop")
    /\ last' = IF Head(pending).who = "stop" THEN "stop_acked"
               ELSE "reset_acked"
    /\ NoBatch
    /\ UNCHANGED <<chip_count, sps, mcu_freq, clients, batch_timer>>

(***************************************************************************)
(* Variant: the handler accepts the params and its body runs, lines        *)
(* 170-172 up to the send_wait_ack of _finish_measurements, where it gives *)
(* control back to the reactor; timers and the transport run while it      *)
(* waits, and stop_acked resumes it.                                       *)
(***************************************************************************)
handle_reset_params_accepted ==
    /\ LET s == _handle_reset_send(Driver(<<>>))
       IN  /\ Install(s)
           /\ pending' = Suspend("reset", s)
    /\ last' = "handle_reset_params"
    /\ NoBatch
    /\ UNCHANGED <<chip_count, sps, mcu_freq, clients, is_started,
                   batch_timer>>

(***************************************************************************)
(* The device's reset_hx71x notification, received asynchronously in any   *)
(* state: the callback registered at line 121 is called with the message's *)
(* params; _handle_reset(self) takes no such argument, the call raises     *)
(* TypeError before the first statement of the handler and nothing is      *)
(* logged, sent or cleared.                                                *)
(***************************************************************************)
handle_reset_params ==
    /\ Install(raise(Driver(<<>>), "TypeError"))
    /\ last' = "handle_reset_params"
    /\ NoBatch
    /\ UNCHANGED <<chip_count, sps, mcu_freq, clients, is_started,
                   batch_timer, pending>>

(***************************************************************************)
(* A timer tick while Running: _process_batch, then the dispatch of a      *)
(* non-empty message to every subscriber.                                  *)
(***************************************************************************)
proc_batch ==
    /\ ReactorFree
    /\ is_started
    /\ batch_timer
    /\ LET r == _process_batch(Driver(<<>>))
           to == IF r.msg = NoData THEN {} ELSE clients
       IN  /\ Install([r.s EXCEPT !.log =
                         IF r.msg = NoData THEN @
                         ELSE Append(@, Step("dispatch", Cardinality(to)))])
           /\ batch_msg' = r.msg
           /\ delivered_to' = to
    /\ last' = "proc_batch"
    /\ UNCHANGED <<chip_count, sps, mcu_freq, clients, is_started,
                   batch_timer, pending>>

(***************************************************************************)
(* The same tick in the two parts between which the transport's thread can *)
(* enqueue a message: up to pull_samples, and the decoding and dispatch of *)
(* the list that was pulled.                                               *)
(***************************************************************************)
proc_batch_pull ==
    /\ ReactorFree
    /\ is_started
    /\ batch_timer
    /\ ~pulled.busy
    /\ LET p == _process_batch_pull(Driver(<<>>))
       IN  /\ Install(p.s)
           /\ pulled' = [busy |-> TRUE, raw_samples |-> p.raw_samples,
                         log |-> p.s.log]
    /\ NoBatch
    /\ last' = "proc_batch_pull"
    /\ UNCHANGED <<chip_count, sps, mcu_freq, clients, is_started,
                   batch_timer, pending>>

proc_batch_decode ==
    /\ pulled.busy
    /\ LET r == _process_batch_decode(Driver(pulled.log), pulled.raw_samples)
           to == IF r.msg = NoData THEN {} ELSE clients
       IN  /\ Install([r.s EXCEPT !.log =
                         IF r.msg = NoData THEN @
                         ELSE Append(@, Step("dispatch", Cardinality(to)))])
           /\ batch_msg' = r.msg
           /\ delivered_to' = to
    /\ pulled' = NotPulled
    /\ last' = "proc_batch"
    /\ UNCHANGED <<chip_count, sps, mcu_freq, clients, is_started,
                   batch_timer, pending>>

(***************************************************************************)
(* The transport delivers one message of the streaming device (gap         *)
(* messages before it were lost).  Data still arrives while a stop sent to *)
(* a streaming device has not been acknowledged.                           *)
(***************************************************************************)
DataInFlight ==
    \/ dev_rest_ticks > 0
    \/ \E i \in 1..Len(pending) : pending[i].streaming

handle_data(data, gap) ==
    /\ DataInFlight
    /\ queue' = Append(queue, RawMessage(dev_seq + gap, data))
    /\ dev_seq' = dev_seq + gap + 1
    /\ last' = "handle_data"
    /\ log' = <<>>
    /\ NoBatch
    /\ UNCHANGED <<chip_count, sps, mcu_freq, clients, is_started,
                   batch_timer, dev_rest_ticks, clock_gen, pending>>

Next ==
    /\ \/ \E c \in Clients : add_client(c)
       \/ \E c \in Clients : remove_client(c)
       \/ stop_acked
       \/ handle_reset_params
       \/ proc_batch
       \/ \E data \in LifecyclePayloads(chip_count) :
             /\ Len(queue) < MaxQueue
             /\ dev_seq <= MaxSeq
             /\ handle_data(data, 0)
    /\ UNCHANGED <<cfg, built, pulled, history, probe_vars>>

Spec == Init /\ [][Next]_vars


(***************************************************************************)
(* The decoder on its own: a Running session of any chip count receives a  *)
(* batch of up to MaxDecodeMsgs messages (each after 0 or 2 lost messages) *)
(* and the batch cycle is applied to it.                                   *)
(***************************************************************************)
DecodeGaps == {0, 2}

DecodeInit ==
    /\ chip_count \in 1..MAX_CHIPS
    /\ cfg = SectionOf(chip_count)
    /\ built = Configured(cfg)
    /\ sps \in {r \in HX717_SPS : r = 80}
    /\ mcu_freq \in {f \in McuFreqs : f = 16000000}
    /\ clients = {1}
    /\ is_started = TRUE
    /\ batch_timer = TRUE
    /\ queue = <<>>
    /\ dev_rest_ticks = rest_ticks_of(sps, mcu_freq)
    /\ dev_seq = 0
    /\ clock_gen = 0
    /\ pending = <<>>
    /\ pulled = NotPulled
    /\ batch_msg = NoData
    /\ delivered_to = {}
    /\ log = <<>>
    /\ last = "init"
    /\ arrived = <<>>
    /\ dispatched = <<>>
    /\ stale = <<>>
    /\ dropped = 0
    /\ NoProbe

DecodeNext ==
    /\ \/ \E data \in DecodePayloads(chip_count), gap \in DecodeGaps :
             /\ last # "proc_batch"
             /\ Len(queue) < MaxDecodeMsgs
             /\ handle_data(data, gap)
       \/ proc_batch
    /\ UNCHANGED <<cfg, built, pulled, history, probe_vars>>

SpecDecode == DecodeInit /\ [][DecodeNext]_vars


(***************************************************************************)
(* Construction: any configuration section is given to the constructor;    *)
(* an object that was built configures its MCU, and then runs one          *)
(* subscription that receives a message of one block.                      *)
(***************************************************************************)
ConfigInit ==
    /\ cfg \in ConfigSections
    /\ built = NotBuilt
    /\ chip_count = 0
    /\ sps \in {r \in HX711_SPS : r = 80}
    /\ mcu_freq \in {f \in McuFreqs : f = 16000000}
    /\ Constructed
    /\ NoProbe

construct ==
    /\ built = NotBuilt
    /\ built' = __init__(cfg)
    /\ chip_count' = built'.chip_count
    /\ last' = "construct"
    /\ UNCHANGED <<cfg, sps, mcu_freq, clients, is_started, batch_timer,
                   queue, dev_rest_ticks, dev_seq, clock_gen, pending,
                   batch_msg, delivered_to, log, pulled, history,
                   probe_vars>>

\* The MCU's configuration callback of an object that was built.
build_config ==
    /\ built.error = None
    /\ built.config_cmds = <<>>
    /\ built' = [built EXCEPT !.config_cmds = _build_config(built)]
    /\ last' = "build_config"
    /\ UNCHANGED <<cfg, chip_count, sps, mcu_freq, clients, is_started,
                   batch_timer, queue, dev_rest_ticks, dev_seq, clock_gen,
                   pending, batch_msg, delivered_to, log,
                   pulled, history, probe_vars>>

MCUConfigured == built.error = None /\ built.config_cmds # <<>>

ConfigNext ==
    \/ construct
    \/ build_config
    \/ /\ MCUConfigured
       /\ \/ \E c \in {1} : add_client(c)
          \/ \E data \in {PatternData(1, 1, chip_count)} :
                /\ dev_seq = 0
                /\ handle_data(data, 0)
          \/ proc_batch
       /\ UNCHANGED <<cfg, built, pulled, history, probe_vars>>

SpecConfig == ConfigInit /\ [][ConfigNext]_vars


(***************************************************************************)
(* Vocabulary of the properties.                                           *)
(***************************************************************************)
Ops(steps) == [i \in 1..Len(steps) |-> steps[i].op]

Count(steps, op) == Cardinality({i \in 1..Len(steps) : steps[i].op = op})

Running == is_started /\ ReactorFree

Streaming == dev_rest_ticks > 0

\* The commands among the steps of a handler, in the order they were sent.
RECURSIVE Commands(_)
Commands(steps) ==
    IF steps = <<>> THEN <<>>
    ELSE IF Head(steps).op \in {"send", "send_wait_ack"}
         THEN <<Head(steps)>> \o Commands(Tail(steps))
         ELSE Commands(Tail(steps))

(***************************************************************************)
(* C1: a reset notification received while the session is Running sends    *)
(* exactly one stop command (rest_ticks 0, waiting for its                 *)
(* acknowledgement) and then exactly one start command (non-zero           *)
(* rest_ticks), in that order; when the handler returns the device is      *)
(* streaming again, and the handler only reports the reset (it raises      *)
(* nothing and asks for no shutdown).                                      *)
(***************************************************************************)
C1_ResetStopsThenStarts ==
    [][ (last' = "handle_reset_params" /\ Running) =>
          /\ Commands(log') =
                <<Step("send_wait_ack", 0),
                  Step("send", rest_ticks_of(sps, mcu_freq))>>
          /\ rest_ticks_of(sps, mcu_freq) > 0
          /\ Streaming'
          /\ \A i \in 1..Len(log') :
                log'[i].op \in {"logging.error", "send_wait_ack", "ack",
                                "clear_samples", "send", "note_start"}
      ]_vars

(***************************************************************************)
(* C2: in every reachable state the device has been commanded to stream    *)
(* only if at least one subscriber (client or dump endpoint) is active; a  *)
(* reset notification that arrives while the session is Idle or while a    *)
(* stop awaits its acknowledgement does not change that.                   *)
(***************************************************************************)
C2_StreamsOnlyWhileSubscribed ==
    Streaming => clients # {}

\* A reset notification has arrived with no subscriber, while the stop of
\* the last subscriber awaits its acknowledgement: the device is not
\* streaming.
C2_Witness ==
    /\ last = "handle_reset_params"
    /\ clients = {}
    /\ Waiting("stop")
    /\ ~Streaming


StartSteps ==
    <<Step("clear_samples", 0), Step("send", rest_ticks_of(sps, mcu_freq)),
      Step("note_start", 0)>>

StopSteps ==
    <<Step("send_wait_ack", 0), Step("ack", 0), Step("clear_samples", 0)>>

(***************************************************************************)
(* C3: subscribing while Idle makes the session Running and sends the      *)
(* start command exactly once; subscribing while Running sends no command; *)
(* unsubscribing the last client sends the stop command exactly once, and  *)
(* when that stop completes the session is Idle and the queue is empty.    *)
(***************************************************************************)
C3_Lifecycle ==
    [][ /\ (last' = "add_client" /\ ~is_started) =>
              /\ is_started'
              /\ batch_timer'
              /\ Commands(log') = <<Step("send", rest_ticks_of(sps, mcu_freq))>>
              /\ Streaming'
        /\ (last' = "add_client" /\ is_started) =>
              /\ is_started'
              /\ Commands(log') = <<>>
              /\ dev_rest_ticks' = dev_rest_ticks
              /\ queue' = queue
        /\ (last' = "remove_client" /\ clients' = {} /\ Running) =>
              /\ Commands(log') = <<Step("send_wait_ack", 0)>>
              /\ ~Streaming'
        /\ (last' = "remove_client" /\ clients' # {}) =>
              /\ Commands(log') = <<>>
              /\ is_started' = is_started
        /\ (last' = "stop_acked") =>
              /\ ~is_started'
              /\ queue' = <<>>
              /\ Commands(log') = <<Step("send_wait_ack", 0)>>
      ]_vars

\* The last client's stop has completed with messages discarded: the session
\* is Idle, nothing is subscribed and the queue is empty.
C3_Witness ==
    /\ last = "stop_acked"
    /\ ~is_started
    /\ clients = {}
    /\ queue = <<>>
    /\ log = StopSteps

(***************************************************************************)
(* C4: within one start the queue is cleared first, then the begin-        *)
(* streaming command is sent without waiting, with the non-zero rest_ticks *)
(* of the sample rate, then note_start() is called; no clear follows the   *)
(* command within that start.                                              *)
(***************************************************************************)
C4_StartOrder ==
    /\ rest_ticks_of(sps, mcu_freq) > 0
    /\ \A i \in 1..Len(log) :
          log[i].op = "send" =>
             /\ log[i].arg = rest_ticks_of(sps, mcu_freq)
             /\ i > 1
             /\ log[i - 1].op = "clear_samples"
             /\ i < Len(log)
             /\ log[i + 1].op = "note_start"
             /\ \A j \in (i + 1)..Len(log) : log[j].op # "clear_samples"
    /\ \A i \in 1..Len(log) :
          log[i].op = "note_start" => (i > 1 /\ log[i - 1].op = "send")
    /\ (last = "add_client" /\ log # <<>>) =>
          (log = StartSteps /\ queue = <<>> /\ Streaming /\ clock_gen = 0)

C4_Witness ==
    /\ last = "add_client"
    /\ log = StartSteps
    /\ Streaming
    /\ queue = <<>>

(***************************************************************************)
(* C5: finish_measurement sends the stop command and is suspended until    *)
(* its acknowledgement with the queue untouched; the queue is cleared only *)
(* once the acknowledgement has been received, and it is empty when        *)
(* finish_measurement returns.                                             *)
(***************************************************************************)
C5_FinishOrder ==
    [][ /\ (last' = "remove_client" /\ Waiting("stop")') =>
              /\ log' = <<Step("send_wait_ack", 0)>>
              /\ queue' = queue
        /\ (last' = "stop_acked") =>
              /\ log' = StopSteps
              /\ queue' = <<>>
      ]_vars

\* A stop is waiting for its acknowledgement and the queue still holds the
\* messages that arrived before and after the stop command was sent.
C5_Witness ==
    /\ Waiting("stop")
    /\ Len(queue) = MaxQueue
    /\ ~Streaming


ArgOf(steps, op) ==
    LET i == CHOOSE i \in 1..Len(steps) : steps[i].op = op IN steps[i].arg

(***************************************************************************)
(* C6: every timer tick while Running performs update_clock(), then        *)
(* pull_samples(), then the decoding, then the dispatch, in that order;    *)
(* update_clock() runs exactly once per tick, also when the queue is       *)
(* empty, and every timestamp of the batch is computed from the regression *)
(* as that update_clock() left it.                                         *)
(***************************************************************************)
C6_TickOrder ==
    [][ (last' = "proc_batch") =>
          /\ Ops(log') \in
                { <<"update_clock", "pull_samples">>,
                  <<"update_clock", "pull_samples", "_extract_samples">>,
                  <<"update_clock", "pull_samples", "_extract_samples",
                    "dispatch">> }
          /\ Count(log', "update_clock") = 1
          /\ clock_gen' = (clock_gen % ClockGens) + 1
          /\ clock_gen' # clock_gen
          /\ \A j \in 1..Len(batch_msg'.data) :
                batch_msg'.data[j].time.clock = clock_gen'
      ]_vars

\* A tick has decoded and dispatched samples stamped by its own update.
C6_Witness ==
    /\ last = "proc_batch"
    /\ Count(log, "dispatch") = 1
    /\ batch_msg.data # <<>>
    /\ batch_msg.data[1].time.clock = clock_gen

(***************************************************************************)
(* C7: a tick on which pull_samples() returns no message, or on which the  *)
(* decoding yields no sample, is a no-op: its result is empty, nothing is  *)
(* dispatched to any client or dump endpoint, and the session stays        *)
(* Running with its timer.                                                 *)
(***************************************************************************)
C7_EmptyTickNoOp ==
    (/\ last = "proc_batch"
     /\ \/ ArgOf(log, "pull_samples") = 0
        \/ Count(log, "_extract_samples") = 1
           /\ ArgOf(log, "_extract_samples") = 0)
    => /\ batch_msg = NoData
       /\ delivered_to = {}
       /\ Count(log, "dispatch") = 0
       /\ is_started
       /\ batch_timer

\* A tick pulled messages that decode to no sample while a client listens.
C7_Witness ==
    /\ last = "proc_batch"
    /\ ArgOf(log, "pull_samples") > 0
    /\ Count(log, "_extract_samples") = 1
    /\ ArgOf(log, "_extract_samples") = 0
    /\ clients # {}
    /\ delivered_to = {}


(***************************************************************************)
(* The blocks of a pulled batch as byte strings, in arrival order, and a   *)
(* sum of channel values by index.                                         *)
(***************************************************************************)
RECURSIVE MsgBlocks(_, _)
MsgBlocks(data, n) ==
    IF Len(data) < BYTES_PER_SAMPLE * n THEN <<>>
    ELSE <<SubSeq(data, 1, BYTES_PER_SAMPLE * n)>>
         \o MsgBlocks(SubSeq(data, BYTES_PER_SAMPLE * n + 1, Len(data)), n)

RECURSIVE AllBlocks(_, _)
AllBlocks(raw_samples, n) ==
    IF raw_samples = <<>> THEN <<>>
    ELSE MsgBlocks(Head(raw_samples).data, n)
         \o AllBlocks(Tail(raw_samples), n)

RECURSIVE TotalUpTo(_, _)
TotalUpTo(counts, k) ==
    IF k = 0 THEN 0 ELSE TotalUpTo(counts, k - 1) + counts[k]

Total(counts) == TotalUpTo(counts, Len(counts))

(***************************************************************************)
(* C8: for every block of chip_count little-endian signed 4-byte values    *)
(* the decoder emits one record whose channel values are the values the    *)
(* block encodes, in chip order, and whose aggregate is exactly their sum, *)
(* also for values at the bounds of the 24-bit and of the 4-byte range     *)
(* (channels (100, -50) give aggregate 50).                                *)
(***************************************************************************)
C8_DecodeVerbatim ==
    [][ (last' = "proc_batch") =>
          LET blocks == AllBlocks(queue, chip_count)
              out == batch_msg'.data
          IN  /\ Len(out) = Len(blocks)
              /\ \A j \in 1..Len(out) :
                    /\ Len(out[j].counts) = chip_count
                    /\ PackBlock(out[j].counts) = blocks[j]
                    /\ out[j].total_counts = Total(out[j].counts)
      ]_vars

\* One batch holds the record of (100, -50) with aggregate 50 and a record
\* whose first channel is the most negative 4-byte value.
C8_Witness ==
    /\ last = "proc_batch"
    /\ chip_count = 2
    /\ \E j \in 1..Len(batch_msg.data) :
          /\ batch_msg.data[j].counts = <<100, -50>>
          /\ batch_msg.data[j].total_counts = 50
    /\ \E j \in 1..Len(batch_msg.data) :
          /\ batch_msg.data[j].counts[1] = -2147483647 - 1
          /\ batch_msg.data[j].total_counts = -2147483647 - 1

(***************************************************************************)
(* C9: in every emitted record the aggregate equals the sum of the channel *)
(* values unless some channel is saturated, and when a channel is          *)
(* saturated the aggregate is the saturated value, clamped at a saturation *)
(* bound (of the channel's 24-bit range, of the 4-byte encoding, or of     *)
(* get_range()), not the plain sum.                                        *)
(***************************************************************************)
Saturated(c) == c <= -(2 ^ 23) \/ c >= 2 ^ 23 - 1

SaturationBounds(n) ==
    { -(2 ^ 23), 2 ^ 23 - 1, 2 ^ 23,
      -(2 ^ 23) * n, 2 ^ 23 * n - 1, 2 ^ 23 * n,
      get_range(n)[1], get_range(n)[2], get_range(n)[2] - 1,
      -2147483647 - 1, 2147483647 }

C9_AggregateClampedWhenSaturated ==
    \A j \in 1..Len(batch_msg.data) :
       LET r == batch_msg.data[j]
       IN  IF \E k \in 1..Len(r.counts) : Saturated(r.counts[k])
           THEN r.total_counts \in SaturationBounds(chip_count)
           ELSE r.total_counts = Total(r.counts)

(***************************************************************************)
(* C10: get_range() returns (-(2^23) * chip_count, (2^23) * chip_count)    *)
(* for every chip_count in 1..4.                                           *)
(***************************************************************************)
C10_GetRange ==
    get_range(chip_count) = <<-(2 ^ 23) * chip_count, (2 ^ 23) * chip_count>>


(***************************************************************************)
(* Properties of the construction.                                         *)
(***************************************************************************)
\* The longest run dout_pin1 .. dout_pinK (K <= MAX_CHIPS) a section sets.
RunLength(config) ==
    Cardinality({k \in 1..MAX_CHIPS :
                    \A j \in 1..k : config.dout_pin[j] # None})

Constructing == built # NotBuilt

\* The section sets both pins of five chips.
RequestsFive(config) ==
    \A i \in 1..(MAX_CHIPS + 1) :
        config.dout_pin[i] # None /\ config.sclk_pin[i] # None

\* C11: a section that requests 5 chips (dout_pin5 and sclk_pin5 besides
\* those of chips 1..4) is rejected with a configuration error, and no
\* object is built with more than MAX_CHIPS chips.
C11_FiveChipsRejected ==
    Constructing =>
        /\ RequestsFive(cfg) => built.error # None
        /\ built.chip_count <= MAX_CHIPS

\* A pin of one of the chips of the run is on another MCU than chip 1's
\* data pin.
ForeignPin(config) ==
    \E i \in 1..RunLength(config) :
        \/ config.dout_pin[i] # config.dout_pin[1]
        \/ config.sclk_pin[i] \notin {None, config.dout_pin[1]}

\* C12: construction is rejected whenever a data or clock pin of one of
\* the chips is on another MCU than the data pin of chip 1; an object that
\* was built has all its 2 * chip_count pins on one MCU, its own.
C12_SameMcu ==
    Constructing =>
        /\ ForeignPin(cfg) => built.error # None
        /\ built.error = None =>
              \A i \in 1..built.chip_count :
                  /\ cfg.dout_pin[i] = built.mcu
                  /\ cfg.sclk_pin[i] = built.mcu

C12_Witness ==
    /\ last = "construct"
    /\ built.error = "All HX71x chips must be connected to the same MCU"
    /\ cfg.dout_pin[1] = "mcu"
    /\ cfg.dout_pin[2] = "mcu"
    /\ cfg.sclk_pin[1] = "mcu"
    /\ cfg.sclk_pin[2] = "mcu2"

\* The section wires a run of 1..MAX_CHIPS chips completely, to one MCU.
WellFormed(config) ==
    /\ RunLength(config) >= 1
    /\ \A i \in 1..RunLength(config) : config.sclk_pin[i] # None
    /\ ~ForeignPin(config)

\* C13: a well-formed section of 1..4 chips is built; both pin lists of the
\* object and of its configuration command have exactly MAX_CHIPS entries,
\* the first chip_count the pins of the chips and the others a placeholder
\* that is a valid pin (the first); the command carries the true chip
\* count, and every decoded sample has exactly chip_count channel values.
C13_PaddedPins ==
    /\ (Constructing /\ WellFormed(cfg)) => built.error = None
    /\ (Constructing /\ built.error = None) =>
          /\ Len(built.dout_pins) = MAX_CHIPS
          /\ Len(built.sclk_pins) = MAX_CHIPS
          /\ \A k \in 1..MAX_CHIPS :
                /\ built.dout_pins[k] =
                      <<"dout", IF k <= built.chip_count THEN k ELSE 1>>
                /\ built.sclk_pins[k] =
                      <<"sclk", IF k <= built.chip_count THEN k ELSE 1>>
    /\ MCUConfigured =>
          /\ built.config_cmds[1].chip_count = RunLength(cfg)
          /\ built.config_cmds[1].dout_pins = built.dout_pins
          /\ built.config_cmds[1].sclk_pins = built.sclk_pins
    /\ (MCUConfigured /\ batch_msg.has_data) =>
          \A j \in 1..Len(batch_msg.data) :
              Len(batch_msg.data[j].counts) = RunLength(cfg)

C13_Witness ==
    /\ last = "proc_batch"
    /\ batch_msg.has_data
    /\ built.chip_count = 2
    /\ built.config_cmds[1].dout_pins =
          << <<"dout", 1>>, <<"dout", 2>>, <<"dout", 1>>, <<"dout", 1>> >>

\* C17: chip_count is the length of the longest run dout_pin1..dout_pinK
\* (K <= 4); construction fails with a configuration error when dout_pin1
\* is not set and when a dout_pinN of the run has no sclk_pinN; an object
\* that is built has 1 <= chip_count <= 4.
C17_ChipCountIsRun ==
    Constructing =>
        /\ RunLength(cfg) = 0 =>
              built.error = "The minimum number of sensor chips is 1"
        /\ (\E i \in 1..RunLength(cfg) : cfg.sclk_pin[i] = None) =>
              built.error = "HX71x config missing sclk_pin"
        /\ built.error = None =>
              /\ built.chip_count = RunLength(cfg)
              /\ chip_count = RunLength(cfg)
              /\ 1 <= built.chip_count
              /\ built.chip_count <= MAX_CHIPS

C17_Witness ==
    /\ last = "construct"
    /\ built.error = None
    /\ built.chip_count = 2
    /\ cfg.dout_pin[3] = None
    /\ cfg.dout_pin[4] # None


(***************************************************************************)
(* Properties of the timestamps.                                           *)
(***************************************************************************)
\* The absolute block index of every full block of the pulled messages, in
\* order: sequence * blocks_per_msg + index of the block in its message.
RECURSIVE AbsIndices(_, _)
AbsIndices(raw_samples, n) ==
    IF raw_samples = <<>> THEN <<>>
    ELSE [i \in 1..(Len(Head(raw_samples).data) \div bytes_per_block(n)) |->
             Head(raw_samples).sequence * blocks_per_msg(n) + (i - 1)]
         \o AbsIndices(Tail(raw_samples), n)

\* C14: the time of a decoded block depends only on its absolute block
\* index sequence * blocks_per_msg + i: all samples of a batch are stamped
\* with one clock regression, and two of them differ by (difference of
\* their absolute block indices) / sample_rate, also across a gap in the
\* sequence numbers (blocks after it are stamped as if the lost messages
\* were there).
C14_TimeFromAbsoluteIndex ==
    [][(last' = "proc_batch" /\ batch_msg'.has_data) =>
         LET out == batch_msg'.data
             idx == AbsIndices(queue, chip_count)
         IN  /\ Len(out) = Len(idx)
             /\ \A j \in 1..Len(out) :
                   /\ out[j].time.block = idx[j]
                   /\ out[j].time.clock = clock_gen'
             /\ \A j, k \in 1..Len(out) :
                   out[k].time.block - out[j].time.block = idx[k] - idx[j]
      ]_vars

\* A batch of two one-block messages, the second after 2 lost messages.
C14_Witness ==
    /\ last = "proc_batch"
    /\ batch_msg.has_data
    /\ Len(batch_msg.data) = 2
    /\ batch_msg.data[1].time.block = 0
    /\ batch_msg.data[2].time.block = 3 * blocks_per_msg(chip_count)


(***************************************************************************)
(* Properties of the message sizes and of the decoded batch.               *)
(***************************************************************************)
\* The samples of the batch returned by the last tick (none when empty).
Samples(msg) == IF msg.has_data THEN msg.data ELSE <<>>

\* Number of whole blocks of 4 * n bytes in the pulled messages.
RECURSIVE RecordCount(_, _)
RecordCount(raw_samples, n) ==
    IF raw_samples = <<>> THEN 0
    ELSE Len(Head(raw_samples).data) \div (4 * n)
         + RecordCount(Tail(raw_samples), n)

\* C18: for chip_count 1..4 a full message has blocks_per_msg =
\* MAX_BULK_MSG_SIZE div (4 * chip_count) blocks, that is
\* chip_count * 4 * blocks_per_msg bytes, never more than
\* MAX_BULK_MSG_SIZE; decoding a message of L bytes emits exactly
\* L div (4 * chip_count) samples, a trailing partial block is ignored.
C18_MessageSizes ==
    [][/\ chip_count \in 1..MAX_CHIPS
       /\ built.blocks_per_msg = MAX_BULK_MSG_SIZE \div (4 * chip_count)
       /\ blocks_per_msg(chip_count) = built.blocks_per_msg
       /\ chip_count * 4 * built.blocks_per_msg <= MAX_BULK_MSG_SIZE
       /\ last' = "proc_batch" =>
             Len(Samples(batch_msg')) = RecordCount(queue, chip_count)
      ]_vars

\* One message of MAX_BULK_MSG_SIZE bytes (3 blocks of 4 chips and 3 more
\* bytes) was decoded.
C18_Witness ==
    /\ last = "proc_batch"
    /\ chip_count = 4
    /\ ArgOf(log, "pull_samples") = 1
    /\ Len(Samples(batch_msg)) = MAX_BULK_MSG_SIZE \div 16

\* C19: decoding drops no sample: when every pulled message has at most
\* MAX_BULK_MSG_SIZE bytes, the blocks of the batch fit the capacity
\* (messages * blocks_per_msg) of the bounded buffer, and the result holds
\* every block of every message exactly once, ordered by message arrival
\* and by index within the message.
C19_NoSampleDropped ==
    [][(/\ last' = "proc_batch"
        /\ \A m \in 1..Len(queue) :
              Len(queue[m].data) <= MAX_BULK_MSG_SIZE) =>
         LET out == Samples(batch_msg')
             blocks == AllBlocks(queue, chip_count)
         IN  /\ Len(blocks) <= Len(queue) * blocks_per_msg(chip_count)
             /\ Len(out) = Len(blocks)
             /\ \A j \in 1..Len(out) : PackBlock(out[j].counts) = blocks[j]
             /\ \A j \in 1..(Len(out) - 1) :
                   out[j].time.block < out[j + 1].time.block
      ]_vars

\* Two messages of MAX_BULK_MSG_SIZE bytes fill the buffer to its capacity.
C19_Witness ==
    /\ last = "proc_batch"
    /\ ArgOf(log, "pull_samples") = 2
    /\ Len(Samples(batch_msg)) = 2 * blocks_per_msg(chip_count)
    /\ blocks_per_msg(chip_count) > 1

\* The channel value is a signed 24-bit conversion result.
In24Bit(c) == -(2 ^ 23) <= c /\ c < 2 ^ 23

\* C20: for chip_count 1..4, the aggregate of a block whose channel values
\* all lie in [-2^23, 2^23) lies strictly between the two bounds of
\* get_range().
C20_AggregateWithinRange ==
    \A j \in 1..Len(Samples(batch_msg)) :
        LET r == Samples(batch_msg)[j]
        IN  (\A k \in 1..Len(r.counts) : In24Bit(r.counts[k])) =>
                /\ get_range(chip_count)[1] < r.total_counts
                /\ r.total_counts < get_range(chip_count)[2]

\* Four chips all at the most negative 24-bit value.
C20_Witness ==
    /\ last = "proc_batch"
    /\ chip_count = MAX_CHIPS
    /\ \E j \in 1..Len(Samples(batch_msg)) :
          /\ Samples(batch_msg)[j].counts =
                <<-8388608, -8388608, -8388608, -8388608>>
          /\ Samples(batch_msg)[j].total_counts = -33554432


(***************************************************************************)
(* Producer and consumer of the bulk queue: the lifecycle of one           *)
(* subscriber whose device sends messages of one block, with the history   *)
(* of every message: when it was enqueued, and whether it was cleared or   *)
(* decoded.                                                                *)
(***************************************************************************)
QueuePayloads(n) == {PatternData(1, 1, n)}

\* The handler that ran sent the start command.
Started == Count(log', "send") > 0

\* Sequence numbers of the messages whose samples the tick returned.
Decoded(msg, n) ==
    [j \in 1..Len(Samples(msg)) |->
        Samples(msg)[j].time.block \div blocks_per_msg(n)]

Record ==
    /\ stale' = IF last' = "handle_data" THEN Append(stale, FALSE)
                ELSE IF Started THEN [i \in 1..Len(queue') |-> TRUE]
                ELSE IF queue' = <<>> THEN <<>>
                ELSE stale
    /\ dropped' = IF last' = "stop_acked" THEN Len(queue) - Len(queue')
                  ELSE IF Started
                  THEN dropped + (Len(queue) - Len(queue'))
                  ELSE dropped
    /\ arrived' = IF last' = "handle_data"
                  THEN Append(arrived, queue'[Len(queue')].sequence)
                  ELSE IF Started THEN <<>>
                  ELSE IF last' \in {"proc_batch", "proc_batch_pull"}
                  THEN arrived
                  ELSE SubSeq(arrived, 1,
                              Len(arrived) - (Len(queue) - Len(queue')))
    /\ dispatched' = IF Started THEN <<>>
                     ELSE IF last' = "proc_batch"
                     THEN dispatched \o Decoded(batch_msg', chip_count)
                     ELSE dispatched

QueueInit ==
    /\ Init
    /\ sps = 80

QueueNext ==
    /\ \/ \E c \in {1} : add_client(c)
       \/ \E c \in {1} : remove_client(c)
       \/ stop_acked
       \/ handle_reset_params
       \/ proc_batch
       \/ \E data \in QueuePayloads(chip_count) :
             /\ Len(queue) < MaxQueue
             /\ dev_seq <= MaxSeq
             /\ handle_data(data, 0)
    /\ Record
    /\ UNCHANGED <<cfg, built, pulled, probe_vars>>

SpecQueue == QueueInit /\ [][QueueNext]_vars

(***************************************************************************)
(* Producer and consumer interleaved: the transport enqueues from its own  *)
(* thread, also between a tick's pull_samples and its decoding; the        *)
(* reactor runs one handler at a time, so nothing else of the driver runs  *)
(* during a tick.                                                          *)
(***************************************************************************)
DrainNext ==
    /\ \/ /\ ~pulled.busy
          /\ \/ \E c \in {1} : add_client(c)
             \/ \E c \in {1} : remove_client(c)
             \/ stop_acked
          /\ UNCHANGED pulled
       \/ handle_reset_params /\ UNCHANGED pulled
       \/ proc_batch_pull
       \/ proc_batch_decode
       \/ \E data \in QueuePayloads(chip_count) :
             /\ Len(queue) < MaxQueue
             /\ dev_seq <= MaxSeq
             /\ handle_data(data, 0)
             /\ UNCHANGED pulled
    /\ Record
    /\ UNCHANGED <<cfg, built, probe_vars>>

SpecDrain == QueueInit /\ [][DrainNext]_vars

SequenceNumbers(msgs) == [i \in 1..Len(msgs) |-> msgs[i].sequence]

C16_NoStaleData ==
    [][/\ last' = "proc_batch" => \A i \in 1..Len(stale) : ~stale[i]
       /\ \A i \in 1..Len(stale') : ~stale'[i]
       /\ Len(stale') = Len(queue')
      ]_vars

\* Samples are dispatched in a session whose start followed a stop with
\* messages still buffered: they were discarded at that boundary.
C16_Witness ==
    /\ last = "proc_batch"
    /\ batch_msg.has_data
    /\ delivered_to # {}
    /\ dropped > 0


(***************************************************************************)
(* Probing: a multi-probe sequence of up to MaxSamples samples, each a     *)
(* probe_prepare followed by a probe_finish, on a printer whose load-cell  *)
(* driver stays idle.  The history keeps the toolhead as it was before the *)
(* last probe_prepare and the G-code templates run so far.                 *)
(***************************************************************************)
MaxSamples == 2        \* samples of one multi-probe sequence
MaxDirectCalls == 1    \* calls outside the sequence's pairs, per sequence

\* The activate / deactivate templates among the steps of a handler.
RECURSIVE GcodeEvents(_, _, _)
GcodeEvents(steps, by, k) ==
    IF steps = <<>> THEN <<>>
    ELSE IF Head(steps).op \in {"activate_gcode", "deactivate_gcode"}
    THEN <<[by |-> by, sample |-> k, op |-> Head(steps).op]>>
         \o GcodeEvents(Tail(steps), by, k)
    ELSE GcodeEvents(Tail(steps), by, k)

InstallProbe(p) ==
    /\ toolhead' = p.toolhead
    /\ probe' = p.self
    /\ log' = p.log

driver_vars ==
    <<cfg, built, chip_count, sps, mcu_freq, clients, is_started,
      batch_timer, queue, dev_rest_ticks, dev_seq, clock_gen, pending,
      pulled, batch_msg, delivered_to, history>>

ProbeInit ==
    /\ chip_count \in LifecycleChips
    /\ cfg = SectionOf(chip_count)
    /\ built = Configured(cfg)
    /\ sps \in {r \in HX711_SPS : r = 80}
    /\ mcu_freq \in {f \in McuFreqs : f = 16000000}
    /\ Constructed
    /\ toolhead \in {Toolhead(a, d, i) : a \in ToolheadAccels,
                                         d \in ToolheadAccelToDecels,
                                         i \in BOOLEAN}
    /\ probe \in {ProbeObject(c, a, d) : c \in ProbeClasses,
                                         a \in ProbeAccels,
                                         d \in BOOLEAN}
    /\ probing = NotProbing(toolhead)

call_multi_probe_begin ==
    /\ probing.phase = "idle"
    /\ ~probing.in_multi
    /\ InstallProbe(multi_probe_begin(Probing(<<>>)))
    /\ probing' = [probing EXCEPT !.in_multi = TRUE, !.samples = 0,
                                  !.events = <<>>, !.direct = 0]
    /\ last' = "multi_probe_begin"
    /\ UNCHANGED driver_vars

call_probe_prepare ==
    /\ probing.phase = "idle"
    /\ probing.in_multi
    /\ InstallProbe(probe_prepare(Probing(<<>>)))
    /\ probing' = [probing EXCEPT
                      !.phase = "prepared",
                      !.samples = @ + 1,
                      !.before = toolhead,
                      !.events = @ \o GcodeEvents(log', "probe_prepare",
                                                  probing.samples + 1)]
    /\ last' = "probe_prepare"
    /\ UNCHANGED driver_vars

\* probe_finish, after a probe_prepare (paired) or without one.
call_probe_finish ==
    /\ InstallProbe(probe_finish(Probing(<<>>)))
    /\ probing' = [probing EXCEPT
                      !.phase = "idle",
                      !.paired = (probing.phase = "prepared"),
                      !.direct = IF probing.phase = "prepared" THEN @
                                 ELSE @ + 1,
                      !.events = @ \o GcodeEvents(log', "probe_finish",
                                                  probing.samples)]
    /\ last' = "probe_finish"
    /\ UNCHANGED driver_vars

call_multi_probe_end ==
    /\ probing.phase = "idle"
    /\ probing.in_multi
    /\ probing.samples >= 1
    /\ InstallProbe(multi_probe_end(Probing(<<>>)))
    /\ probing' = [probing EXCEPT
                      !.in_multi = FALSE,
                      !.events = @ \o GcodeEvents(log', "multi_probe_end",
                                                  probing.samples)]
    /\ last' = "multi_probe_end"
    /\ UNCHANGED driver_vars

\* The public activate_probe() and deactivate_probe() of
\* AccelerometerVibrationProbe, called on their own.
call_activate_probe ==
    /\ probe.class = "AccelerometerVibrationProbe"
    /\ InstallProbe(activate_probe(Probing(<<>>)))
    /\ probing' = [probing EXCEPT
                      !.direct = @ + 1,
                      !.events = @ \o GcodeEvents(log', "activate_probe",
                                                  probing.samples)]
    /\ last' = "activate_probe"
    /\ UNCHANGED driver_vars

call_deactivate_probe ==
    /\ probe.class = "AccelerometerVibrationProbe"
    /\ InstallProbe(deactivate_probe(Probing(<<>>)))
    /\ probing' = [probing EXCEPT
                      !.direct = @ + 1,
                      !.events = @ \o GcodeEvents(log', "deactivate_probe",
                                                  probing.samples)]
    /\ last' = "deactivate_probe"
    /\ UNCHANGED driver_vars

ProbeNext ==
    \/ call_multi_probe_begin
    \/ probing.samples < MaxSamples /\ call_probe_prepare
    \/ probing.phase = "prepared" /\ call_probe_finish
    \/ probing.phase = "idle" /\ probing.direct < MaxDirectCalls
       /\ call_probe_finish
    \/ call_multi_probe_end
    \/ probing.direct < MaxDirectCalls /\ call_activate_probe
    \/ probing.direct < MaxDirectCalls /\ call_deactivate_probe

SpecProbe == ProbeInit /\ [][ProbeNext]_vars

\* The calls that make up a multi-probe sequence.
SequenceCalls == {"probe_prepare", "probe_finish", "multi_probe_end"}

SequenceEvents ==
    SelectSeq(probing.events, LAMBDA e : e.by \in SequenceCalls)

\* The G-code templates run by the sample that just finished.
PairEvents ==
    SelectSeq(probing.events,
              LAMBDA e : /\ e.sample = probing.samples
                         /\ e.by \in {"probe_prepare", "probe_finish"})

\* C21: every probe_prepare followed by probe_finish restores the toolhead:
\* after probe_finish max_accel and max_accel_to_decel are what they were
\* immediately before probe_prepare, input shaping is enabled again if the
\* printer has an input shaper, and activate_gcode has run exactly once
\* before deactivate_gcode has run exactly once.
C21_ProbeRestoresToolhead ==
    (last = "probe_finish" /\ probing.paired) =>
        /\ toolhead.max_accel = probing.before.max_accel
        /\ toolhead.max_accel_to_decel = probing.before.max_accel_to_decel
        /\ toolhead.input_shaper => toolhead.shaping
        /\ [i \in 1..Len(PairEvents) |-> PairEvents[i].op] =
              <<"activate_gcode", "deactivate_gcode">>

\* C22: in a multi-probe sequence of AccelerometerVibrationProbe with
\* deactivate_on_each_sample false, only the first probe_prepare runs the
\* activate G-code (and takes the state from FIRST to ON), only
\* multi_probe_end runs the deactivate G-code (and takes the state to OFF);
\* later probe_prepare calls and every probe_finish run neither.
C22_MultiProbeActivation ==
    (/\ probe.class = "AccelerometerVibrationProbe"
     /\ ~probe.deactivate_on_each_sample) =>
        /\ \A i \in 1..Len(SequenceEvents) :
              LET e == SequenceEvents[i]
              IN  /\ e.op = "activate_gcode" =>
                        (e.by = "probe_prepare" /\ e.sample = 1)
                  /\ e.op = "deactivate_gcode" => e.by = "multi_probe_end"
        /\ (probing.in_multi /\ probing.samples = 0) => probe.multi = "FIRST"
        /\ (probing.in_multi /\ probing.samples >= 1) => probe.multi = "ON"
        /\ (~probing.in_multi /\ last = "multi_probe_end") =>
              /\ probe.multi = "OFF"
              /\ Len(SequenceEvents) = 2

====
